---- MODULE Spec2Model ----
(***************************************************************************)
(* TagPicker.vue: a grouped, searchable multi-select tag picker.           *)
(*                                                                         *)
(* The state is the component's props (modelValue, project, model), its    *)
(* refs (menu, items, total, more, groups, searchQuery, filteredMenuItems, *)
(* loading, snackbar), the tag requests in flight, the lifecycle of the    *)
(* component and the last update:modelValue payload.  One action per       *)
(* event handler.                                                          *)
(*                                                                         *)
(* JavaScript values are modelled as follows.                              *)
(*  - a string that the code inspects (a tag name, the search query) is a  *)
(*    sequence of one-character strings;                                   *)
(*  - an entry of a selection array is a record with a field typeof        *)
(*    ("object" for a tag, "string" for a malformed string entry);         *)
(*  - an object of a fetched response carries its identity in the field    *)
(*    ref (Array.prototype.includes compares by identity); the entries of  *)
(*    modelValue are only ever read through cloneDeep or compared by       *)
(*    content, so they are kept without ref.                               *)
(***************************************************************************)
EXTENDS Integers, Sequences, FiniteSets, TLC

VARIABLES
    modelValue,         \* props.modelValue: the host's selection
    project,            \* props.project
    lifecycle,          \* "setup" (before mount), "mounted", "unmounted"
    menu,               \* ref menu
    items,              \* ref items
    total,              \* ref total
    more,               \* ref more
    groups,             \* ref groups
    searchQuery,        \* ref searchQuery
    filteredMenuItems,  \* ref filteredMenuItems
    loading,            \* ref loading
    snackbar,           \* ref snackbar
    model,              \* props.model
    inflight,           \* tag requests not yet answered: project -> count
    emitted,            \* payload of the last update:modelValue, or NotEmitted
    last                \* the last event handled (history)

vars == <<modelValue, project, lifecycle, menu, items, total, more, groups,
          searchQuery, filteredMenuItems, loading, snackbar, model, inflight,
          emitted, last>>

-----------------------------------------------------------------------------
(* Bounds *)

\* Tag requests that may be in flight at once.
MaxInflight == 2

\* Longest array handed to the handlers in SpecHandlers / SpecSetter.
MaxLen == 2

\* In SpecAll a checkbox is toggled while the selection holds fewer entries.
MaxSelected == 1

-----------------------------------------------------------------------------
(* Data *)

Undefined == -1     \* the value of a missing property (never an id)

Projects == {"null", "p1"}

Priority == [id |-> 2, name |-> "priority", exclusive |-> TRUE]
Severity == [id |-> 3, name |-> "severity", exclusive |-> FALSE]
Team     == [id |-> 1, name |-> "team", exclusive |-> FALSE]

Tag(id, name, type) ==
    [typeof |-> "object", id |-> id, name |-> name, tag_type |-> type]

Alpha    == Tag(1, <<"A", "l", "p", "h", "a">>, Priority)
AlphaOld == Tag(1, <<"A", "l", "f", "a">>, Priority)  \* tag 1 before a rename
Box      == Tag(2, <<"B", "o", "x">>, Priority)
Exit     == Tag(3, <<"E", "x", "i", "t">>, Severity)
Ox       == Tag(4, <<"O", "x">>, Team)

StringEntry == [typeof |-> "string", str |-> "oops"]

\* What the tag API answers for a project: response.data.items and
\* response.data.total.  The server sorts by tag_type.name.
ServerItems(p) ==
    IF p = "null" THEN <<Alpha, Box, Exit>> ELSE <<Box, Exit, Ox>>

\* For project p1 the server holds one tag more than the page returned.
ServerTotal(p) ==
    IF p = "null" THEN Len(ServerItems(p)) ELSE Len(ServerItems(p)) + 1

\* The selections the host may bind when the component is created.
InitialSelections == {<<>>, <<AlphaOld>>, <<Box, Exit>>}

Queries == {<<>>, <<"x">>, <<"O", "X">>, <<"z">>}

NotEmitted == <<[typeof |-> "none"]>>

NoItem == [typeof |-> "none"]

\* A value of filterOptions.q that is null.
NullQuery == <<"null">>

NoRequest == [q |-> NullQuery, project |-> <<>>, tagTypeFilter |-> <<>>]

NoEvent ==
    [op |-> "none", pre |-> <<>>, item |-> NoItem, id |-> Undefined,
     assigned |-> <<>>, preMenu |-> FALSE, closeCalled |-> FALSE,
     text |-> <<>>, request |-> NoRequest]

Event(op) == [NoEvent EXCEPT !.op = op]

-----------------------------------------------------------------------------
(* JavaScript helpers *)

IsString(v) == v.typeof = "string"

\* v.id and v.tag_type.id; a property of a string primitive is undefined.
PropId(v) == IF IsString(v) THEN Undefined ELSE v.id

\* The content of an object, without its identity.
Content(v) ==
    IF v.typeof = "object"
    THEN [typeof |-> "object", id |-> v.id, name |-> v.name, tag_type |-> v.tag_type]
    ELSE v

\* Mutant of cloneDeep: the copy lacks the last entry.
cloneDeepDropsLast(arr) == SubSeq(arr, 1, Len(arr) - 1)

cloneDeep(arr) == [i \in 1..Len(arr) |-> Content(arr[i])]

LowerOf(c) ==
    CASE c = "A" -> "a" [] c = "B" -> "b" [] c = "E" -> "e"
      [] c = "O" -> "o" [] c = "X" -> "x" [] OTHER -> c

\* Mutant of toLowerCase: the case is kept (a case-sensitive search).
toLowerCaseKeepsCase(s) == s

toLowerCase(s) == [i \in 1..Len(s) |-> LowerOf(s[i])]

\* String.prototype.includes
includes(s, sub) ==
    \E k \in 0..(Len(s) - Len(sub)) : SubSeq(s, k + 1, k + Len(sub)) = sub

\* Array.prototype.includes on objects: identity.
arrayIncludes(arr, obj) == \E i \in 1..Len(arr) : arr[i].ref = obj.ref

\* Vue's looseEqual on plain data: equal content, whatever the identity.
looseEqual(a, b) == a.typeof = b.typeof /\ Content(a) = Content(b)

\* Vue's looseIndexOf: the first loosely equal entry, 0 for none.
looseIndexOf(arr, val) ==
    IF \E i \in 1..Len(arr) : looseEqual(arr[i], val)
    THEN CHOOSE i \in 1..Len(arr) :
            /\ looseEqual(arr[i], val)
            /\ \A j \in 1..(i - 1) : ~looseEqual(arr[j], val)
    ELSE 0

\* Array.prototype.splice(index, 1) on a copy.
splice1(arr, index) == SubSeq(arr, 1, index - 1) \o SubSeq(arr, index + 1, Len(arr))

\* The keys of an object whose keys are all integers: ascending order.
RECURSIVE ObjectKeys(_)
ObjectKeys(keys) ==
    IF keys = {} THEN <<>>
    ELSE LET k == CHOOSE x \in keys : \A y \in keys : x <= y
         IN  <<k>> \o ObjectKeys(keys \ {k})

-----------------------------------------------------------------------------
(* convertData *)

RECURSIVE reduceGroups(_, _, _)
reduceGroups(data, i, r) ==
    IF i > Len(data) THEN r
    ELSE LET a  == data[i]
             k  == a.tag_type.id
             r1 == IF k \notin DOMAIN r
                   THEN r @@ (k :> [id |-> a.tag_type.id,
                                    label |-> a.tag_type.name,
                                    isExclusive |-> a.tag_type.exclusive,
                                    menuItems |-> <<>>])
                   ELSE r
         IN  reduceGroups(data, i + 1,
                          [r1 EXCEPT ![k].menuItems = Append(@, a)])

convertData(data) ==
    LET groupedObject == reduceGroups(data, 1, <<>>)
        keys == ObjectKeys(DOMAIN groupedObject)
    IN  [n \in 1..Len(keys) |-> groupedObject[keys[n]]]

-----------------------------------------------------------------------------
(* selectedItems, isItemDisabled and the template *)

selectedItems == cloneDeep(modelValue)

\* Mutant of isItemDisabled: the selected tag is not exempted.
isItemDisabledWholeGroup(group, item) ==
    \E i \in 1..Len(selectedItems) : selectedItems[i].tag_type.id = group.id

isItemDisabled(group, item) ==
    LET isItemSelectedInGroup ==
            \E i \in 1..Len(selectedItems) :
                selectedItems[i].tag_type.id = group.id
    IN  /\ isItemSelectedInGroup
        /\ ~\E i \in 1..Len(selectedItems) : selectedItems[i].id = item.id

\* :disabled of a checkbox
CheckboxDisabled(group, item) == group.isExclusive /\ isItemDisabled(group, item)

\* v-if of .empty-search
NoResultsShown == Len(filteredMenuItems) = 0 /\ Len(searchQuery) # 0

\* Mutant of GroupShown: tests the filtered list instead of the query.
GroupShownIfNothingFiltered(group) ==
    \/ Len(filteredMenuItems) = 0
    \/ \E i \in 1..Len(filteredMenuItems) :
          arrayIncludes(group.menuItems, filteredMenuItems[i])

\* v-if of .tag-group-container
GroupShown(group) ==
    \/ Len(searchQuery) = 0
    \/ \E i \in 1..Len(filteredMenuItems) :
          arrayIncludes(group.menuItems, filteredMenuItems[i])

\* v-if of .checkbox-item
ItemShown(item) ==
    Len(filteredMenuItems) = 0 \/ arrayIncludes(filteredMenuItems, item)

\* The checkbox of item is in the document.
CheckboxRendered(group, item) ==
    /\ lifecycle = "mounted"
    /\ menu
    /\ GroupShown(group)
    /\ ItemShown(item)

-----------------------------------------------------------------------------
(* The setter of selectedItems *)

\* Mutant of setTags: the string entries are kept.
setTagsUnfiltered(value) == value

setTags(value) == SelectSeq(value, LAMBDA v : ~IsString(v))

\* emit("update:modelValue", tags); the host binds the prop with v-model and
\* replaces its value by the payload.
SetSelectedItems(value) ==
    /\ emitted' = setTags(value)
    /\ modelValue' = setTags(value)

-----------------------------------------------------------------------------
(* Initial state: the refs as declared in <script setup> *)

Init ==
    /\ modelValue \in InitialSelections
    /\ project = "null"
    /\ lifecycle = "setup"
    /\ menu = FALSE
    /\ items = <<>>
    /\ total = 0
    /\ more = FALSE
    /\ groups = <<>>
    /\ searchQuery = <<>>
    /\ filteredMenuItems = <<>>
    /\ loading = TRUE
    /\ snackbar = FALSE
    /\ model = "null"
    /\ inflight = [p \in Projects |-> 0]
    /\ emitted = NotEmitted
    /\ last = NoEvent

-----------------------------------------------------------------------------
(* fetchData *)

Pending == inflight["null"] + inflight["p1"]

Models == {"null", "incident"}

Filter(field, value) == [field |-> field, value |-> value]

ALL_DISCOVERABILITY_TYPES ==
    <<Filter(<<"discoverable_", "incident">>, <<"true">>),
      Filter(<<"discoverable_", "case">>, <<"true">>),
      Filter(<<"discoverable_", "signal">>, <<"true">>),
      Filter(<<"discoverable_", "query">>, <<"true">>),
      Filter(<<"discoverable_", "source">>, <<"true">>)>>

\* String.prototype.indexOf("/"), 0 for none.
indexOfSlash(str) ==
    IF \E i \in 1..Len(str) : str[i] = "/"
    THEN CHOOSE i \in 1..Len(str) :
            str[i] = "/" /\ \A j \in 1..(i - 1) : str[j] # "/"
    ELSE 0

\* The first two pieces of str.split("/"), for a str that holds a "/".
splitSlash(str) ==
    LET i    == indexOfSlash(str)
        rest == SubSeq(str, i + 1, Len(str))
        j    == indexOfSlash(rest)
    IN  <<SubSeq(str, 1, i - 1),
          IF j = 0 THEN rest ELSE SubSeq(rest, 1, j - 1)>>

\* filterOptions as fetchData builds it for props.project p and props.model
\* m.  filterOptions.q is initialised to null and is not assigned from
\* searchQuery.
buildFilterOptions(p, m) ==
    LET q0 == NullQuery
        projectFilter == IF p # "null" THEN <<p>> ELSE <<>>
        slash == q0 # NullQuery /\ q0 # <<>> /\ indexOfSlash(q0) # 0
    IN  IF slash
        THEN [q |-> splitSlash(q0)[2],
              project |-> projectFilter,
              tagTypeFilter |->
                  <<Filter(<<"name">>, splitSlash(q0)[1])>> \o
                  (IF m # "null"
                   THEN <<Filter(<<"discoverable_", m>>, <<"true">>)>>
                   ELSE ALL_DISCOVERABILITY_TYPES)]
        ELSE [q |-> q0,
              project |-> projectFilter,
              tagTypeFilter |->
                  IF m # "null"
                  THEN <<Filter(<<"discoverable_", m>>, <<"true">>)>>
                  ELSE ALL_DISCOVERABILITY_TYPES]

\* loading.value = true; ...; TagApi.getAll(filterOptions): the request
\* carries the project of the moment it is issued.
fetchData(p) ==
    /\ loading' = TRUE
    /\ inflight' = [inflight EXCEPT ![p] = @ + 1]

\* The identity of the objects of a new response: they differ from every
\* object still referenced (the ones in filteredMenuItems; items and groups
\* are overwritten with the response).
NewResp ==
    IF \E i \in 1..Len(filteredMenuItems) : filteredMenuItems[i].ref.resp = 0
    THEN 1 ELSE 0

ResponseItems(p) ==
    [i \in 1..Len(ServerItems(p)) |->
        [typeof |-> "object",
         ref |-> [resp |-> NewResp, idx |-> i],
         id |-> ServerItems(p)[i].id,
         name |-> ServerItems(p)[i].name,
         tag_type |-> ServerItems(p)[i].tag_type]]

\* onMounted(fetchData), and the directive's mounted hook
Mount ==
    /\ lifecycle = "setup"
    /\ lifecycle' = "mounted"
    /\ fetchData(project)
    /\ last' = [Event("mount") EXCEPT
                    !.request = buildFilterOptions(project, model)]
    /\ UNCHANGED <<snackbar, model, modelValue, project, menu, items, total, more, groups,
                   searchQuery, filteredMenuItems, emitted>>

\* the directive's unmounted hook
Unmount ==
    /\ lifecycle = "mounted"
    /\ lifecycle' = "unmounted"
    /\ last' = Event("unmount")
    /\ UNCHANGED <<snackbar, model, modelValue, project, menu, items, total, more, groups,
                   searchQuery, filteredMenuItems, loading, inflight, emitted>>

\* watch(() => props.project, () => fetchData())
ProjectChange(p) ==
    /\ lifecycle = "mounted"
    /\ p # project
    /\ Pending < MaxInflight
    /\ project' = p
    /\ fetchData(p)
    /\ last' = [Event("project") EXCEPT
                    !.request = buildFilterOptions(p, model)]
    /\ UNCHANGED <<snackbar, model, modelValue, lifecycle, menu, items, total, more, groups,
                   searchQuery, filteredMenuItems, emitted>>

\* Mutant of FetchSuccess: the response of a request issued for a project
\* that is no longer the current one is dropped.
FetchSuccessDropsStale(p) ==
    /\ inflight[p] > 0
    /\ inflight' = [inflight EXCEPT ![p] = @ - 1]
    /\ items' = IF p = project THEN ResponseItems(p) ELSE items
    /\ total' = IF p = project THEN ServerTotal(p) ELSE total
    /\ more' = (Len(items') < total')
    /\ groups' = convertData(items')
    /\ loading' = FALSE
    /\ last' = Event("fetched")
    /\ UNCHANGED <<snackbar, model, modelValue, project, lifecycle, menu, searchQuery,
                   filteredMenuItems, emitted>>

\* The then-callback of TagApi.getAll, for a request issued for project p.
FetchSuccess(p) ==
    /\ inflight[p] > 0
    /\ inflight' = [inflight EXCEPT ![p] = @ - 1]
    /\ items' = ResponseItems(p)
    /\ total' = ServerTotal(p)
    /\ more' = (Len(items') < total')
    /\ groups' = convertData(items')
    /\ loading' = FALSE
    /\ last' = Event("fetched")
    /\ UNCHANGED <<snackbar, model, modelValue, project, lifecycle, menu, searchQuery,
                   filteredMenuItems, emitted>>

\* Mutant of FetchFail: a rejection handler clears loading.
FetchFailClearsLoading(p) ==
    /\ inflight[p] > 0
    /\ inflight' = [inflight EXCEPT ![p] = @ - 1]
    /\ loading' = FALSE
    /\ last' = Event("failed")
    /\ UNCHANGED <<snackbar, model, modelValue, project, lifecycle, menu, items,
                   total, more, groups, searchQuery, filteredMenuItems, emitted>>

\* The promise of a request issued for project p rejects: there is no catch
\* handler, no callback runs.
FetchFail(p) ==
    /\ inflight[p] > 0
    /\ inflight' = [inflight EXCEPT ![p] = @ - 1]
    /\ last' = Event("failed")
    /\ UNCHANGED <<snackbar, model, modelValue, project, lifecycle, menu, items,
                   total, more, groups, searchQuery, filteredMenuItems, loading,
                   emitted>>

\* Mutant of ModelChange: a watcher on props.model refetches.
ModelChangeRefetches(m) ==
    /\ lifecycle = "mounted"
    /\ m # model
    /\ Pending < MaxInflight
    /\ model' = m
    /\ fetchData(project)
    /\ last' = Event("model")
    /\ UNCHANGED <<snackbar, modelValue, project, lifecycle, menu, items, total,
                   more, groups, searchQuery, filteredMenuItems, emitted>>

\* The host changes props.model: nothing watches it.
ModelChange(m) ==
    /\ lifecycle = "mounted"
    /\ m # model
    /\ model' = m
    /\ last' = Event("model")
    /\ UNCHANGED <<snackbar, modelValue, project, lifecycle, menu, items, total,
                   more, groups, searchQuery, filteredMenuItems, loading,
                   inflight, emitted>>

-----------------------------------------------------------------------------
(* copyTags *)

\* tags.join(", ")
RECURSIVE join(_)
join(tags) ==
    IF tags = <<>> THEN <<>>
    ELSE IF Len(tags) = 1 THEN tags[1]
    ELSE tags[1] \o <<",", " ">> \o join(Tail(tags))

\* A label without its type name.
tagLabelNameOnly(item) == item.name

\* `${item.tag_type.name}/${item.name}`: the type name is kept as one piece.
tagLabel(item) == <<item.tag_type.name>> \o <<"/">> \o item.name

copyText ==
    join([i \in 1..Len(selectedItems) |-> tagLabel(selectedItems[i])])

\* @click.stop="copyTags": the click reaches neither the field's handler nor
\* the body listener.  The text written to the clipboard is kept in last.
CopyTags ==
    /\ lifecycle = "mounted"
    /\ snackbar' = TRUE
    /\ last' = [Event("copy") EXCEPT !.text = copyText, !.pre = modelValue,
                                     !.preMenu = menu]
    /\ UNCHANGED <<model, modelValue, project, lifecycle, menu, items, total,
                   more, groups, searchQuery, filteredMenuItems, loading,
                   inflight, emitted>>

\* v-snackbar :timeout="2400": the snackbar closes itself.
SnackbarTimeout ==
    /\ snackbar
    /\ snackbar' = FALSE
    /\ last' = Event("snackbarTimeout")
    /\ UNCHANGED <<model, modelValue, project, lifecycle, menu, items, total,
                   more, groups, searchQuery, filteredMenuItems, loading,
                   inflight, emitted>>

-----------------------------------------------------------------------------
(* The checkboxes (v-model="selectedItems") and the chips *)

\* Mutant of vModelCheckbox: the element is appended whatever the model holds.
vModelCheckboxAlwaysAppends(modelVal, elementValue, checked) ==
    modelVal \o <<Content(elementValue)>>

\* Vue's vModelCheckbox listener on an array model: el._modelValue is
\* modelVal, el._value is elementValue, el.checked is checked.  The result is
\* the array handed to the setter.
vModelCheckbox(modelVal, elementValue, checked) ==
    LET index == looseIndexOf(modelVal, elementValue)
        found == index # 0
    IN  IF checked /\ ~found THEN modelVal \o <<Content(elementValue)>>
        ELSE IF ~checked /\ found THEN splice1(modelVal, index)
        ELSE modelVal

\* A click on the rendered, enabled checkbox of item n of group g.  The box
\* is rendered checked iff the item is loosely found in the model; the click
\* flips it.
ToggleCheckbox(g, n) ==
    /\ g \in 1..Len(groups)
    /\ n \in 1..Len(groups[g].menuItems)
    /\ LET group == groups[g]
           item == group.menuItems[n]
           renderedChecked == looseIndexOf(selectedItems, item) # 0
           assigned == vModelCheckbox(selectedItems, item, ~renderedChecked)
       IN  /\ CheckboxRendered(group, item)
           /\ ~CheckboxDisabled(group, item)
           /\ SetSelectedItems(assigned)
           /\ last' = [Event("toggle") EXCEPT !.pre = modelValue,
                                              !.item = Content(item),
                                              !.assigned = assigned]
    /\ UNCHANGED <<snackbar, model, project, lifecycle, menu, items, total, more, groups,
                   searchQuery, filteredMenuItems, loading, inflight>>

\* Mutant of removeItemValue: only the first tag with the id is removed.
removeItemValueFirstOnly(index) ==
    IF \E i \in 1..Len(selectedItems) : PropId(selectedItems[i]) = index
    THEN splice1(selectedItems,
                 CHOOSE i \in 1..Len(selectedItems) :
                    /\ PropId(selectedItems[i]) = index
                    /\ \A j \in 1..(i - 1) : PropId(selectedItems[j]) # index)
    ELSE selectedItems

removeItemValue(index) ==
    SelectSeq(selectedItems, LAMBDA item : PropId(item) # index)

\* Mutant of RemoveItem: only the chip of a tag that is among the fetched
\* candidates can be closed.
RemoveItemNeedsCandidate(i) ==
    /\ lifecycle = "mounted"
    /\ i \in 1..Len(selectedItems)
    /\ \E k \in 1..Len(items) : items[k].id = PropId(selectedItems[i])
    /\ LET index == PropId(selectedItems[i])
       IN  /\ SetSelectedItems(removeItemValue(index))
           /\ last' = [Event("remove") EXCEPT !.pre = modelValue,
                                              !.id = index,
                                              !.assigned = removeItemValue(index)]
    /\ UNCHANGED <<snackbar, model, project, lifecycle, menu, items, total, more, groups,
                   searchQuery, filteredMenuItems, loading, inflight>>

\* @click:close of the chip of selectedItems[i]: removeItem(item.id)
RemoveItem(i) ==
    /\ lifecycle = "mounted"
    /\ i \in 1..Len(selectedItems)
    /\ LET index == PropId(selectedItems[i])
       IN  /\ SetSelectedItems(removeItemValue(index))
           /\ last' = [Event("remove") EXCEPT !.pre = modelValue,
                                              !.id = index,
                                              !.assigned = removeItemValue(index)]
    /\ UNCHANGED <<snackbar, model, project, lifecycle, menu, items, total, more, groups,
                   searchQuery, filteredMenuItems, loading, inflight>>

-----------------------------------------------------------------------------
(* performSearch *)

RECURSIVE searchGroups(_, _, _)
searchGroups(gs, g, q) ==
    IF g > Len(gs) THEN <<>>
    ELSE SelectSeq(gs[g].menuItems,
                   LAMBDA item : includes(toLowerCase(item.name), toLowerCase(q)))
         \o searchGroups(gs, g + 1, q)

\* v-model="searchQuery" @update:model-value="performSearch"
PerformSearch(q) ==
    /\ lifecycle = "mounted"
    /\ menu
    /\ q # searchQuery
    /\ searchQuery' = q
    /\ filteredMenuItems' = searchGroups(groups, 1, q)
    /\ last' = Event("search")
    /\ UNCHANGED <<snackbar, model, modelValue, project, lifecycle, menu, items, total, more,
                   groups, loading, inflight, emitted>>

-----------------------------------------------------------------------------
(* toggleMenu, closeMenu and the v-click-outside directive *)

toggleMenu(m) == ~m

closeMenu(m) == FALSE

\* Mutant of ListenerAttached: the listener is never removed.
ListenerNeverRemoved == lifecycle # "setup"

\* The body listener exists between the directive's mounted and unmounted.
ListenerAttached == lifecycle = "mounted"

\* el.clickOutsideEvent: binding.value is closeMenu
InvokesClose(inside) == ListenerAttached /\ ~inside

clickOutsideEvent(m, inside) == IF InvokesClose(inside) THEN closeMenu(m) ELSE m

\* A click on the text field: @click="toggleMenu", then the event reaches
\* the body listener with a target inside the root element.
ClickField ==
    /\ lifecycle = "mounted"
    /\ menu' = clickOutsideEvent(toggleMenu(menu), TRUE)
    /\ last' = [Event("clickField") EXCEPT !.preMenu = menu,
                                           !.closeCalled = InvokesClose(TRUE)]
    /\ UNCHANGED <<snackbar, model, modelValue, project, lifecycle, items, total, more, groups,
                   searchQuery, filteredMenuItems, loading, inflight, emitted>>

\* A click inside the root element that no other handler takes (the card of
\* the open menu).
ClickInside ==
    /\ lifecycle = "mounted"
    /\ menu
    /\ menu' = clickOutsideEvent(menu, TRUE)
    /\ last' = [Event("clickInside") EXCEPT !.preMenu = menu,
                                            !.closeCalled = InvokesClose(TRUE)]
    /\ UNCHANGED <<snackbar, model, modelValue, project, lifecycle, items, total, more, groups,
                   searchQuery, filteredMenuItems, loading, inflight, emitted>>

\* A click elsewhere in the document, while mounted or after unmount.
ClickOutside ==
    /\ lifecycle # "setup"
    /\ menu' = clickOutsideEvent(menu, FALSE)
    /\ last' = [Event("clickOutside") EXCEPT !.preMenu = menu,
                                             !.closeCalled = InvokesClose(FALSE)]
    /\ UNCHANGED <<snackbar, model, modelValue, project, lifecycle, items, total, more, groups,
                   searchQuery, filteredMenuItems, loading, inflight, emitted>>

-----------------------------------------------------------------------------

Next ==
    \/ Mount
    \/ Unmount
    \/ \E p \in Projects : ProjectChange(p)
    \/ \E p \in Projects : FetchSuccess(p)
    \/ \E g \in 1..Len(groups) : \E n \in 1..Len(groups[g].menuItems) :
          ToggleCheckbox(g, n)
    \/ \E i \in 1..Len(modelValue) : RemoveItem(i)
    \/ \E q \in Queries : PerformSearch(q)
    \/ ClickField
    \/ ClickInside
    \/ ClickOutside

Spec == Init /\ [][Next]_vars

\* Every event of the component: the failure of a request, the copy icon,
\* the snackbar and the host's change of props.model included.  The queries
\* typed are AllQueries and a checkbox is toggled while the selection holds
\* fewer than MaxSelected entries.
AllQueries == {<<>>, <<"x">>}

NextAll ==
    \/ Mount
    \/ Unmount
    \/ \E p \in Projects : ProjectChange(p)
    \/ \E p \in Projects : FetchSuccess(p)
    \/ \E p \in Projects : FetchFail(p)
    \/ \E g \in 1..Len(groups) : \E n \in 1..Len(groups[g].menuItems) :
          Len(modelValue) < MaxSelected /\ ToggleCheckbox(g, n)
    \/ \E i \in 1..Len(modelValue) : RemoveItem(i)
    \/ \E q \in AllQueries : PerformSearch(q)
    \/ ClickField
    \/ ClickInside
    \/ ClickOutside
    \/ CopyTags
    \/ SnackbarTimeout
    \/ \E m \in Models : ModelChange(m)

SpecAll == Init /\ [][NextAll]_vars

\* The requests and what is typed while they are in flight: the selection
\* stays as the host passed it.
NextFetch ==
    \/ Mount
    \/ Unmount
    \/ \E p \in Projects : ProjectChange(p)
    \/ \E p \in Projects : FetchSuccess(p)
    \/ \E p \in Projects : FetchFail(p)
    \/ \E q \in Queries : PerformSearch(q)
    \/ ClickField

SpecFetch == Init /\ [][NextFetch]_vars

\* The requests issued after queries that hold a "/" were typed.
RequestQueries == {<<>>, <<"x">>, <<"p", "/", "x">>, <<"p", "/">>}

NextRequest ==
    \/ Mount
    \/ \E p \in Projects : ProjectChange(p)
    \/ \E m \in Models : ModelChange(m)
    \/ \E p \in Projects : FetchSuccess(p)
    \/ \E p \in Projects : FetchFail(p)
    \/ \E q \in RequestQueries : PerformSearch(q)
    \/ ClickField

SpecRequest == Init /\ [][NextRequest]_vars

-----------------------------------------------------------------------------
(* The handlers called directly, on arbitrary arrays and with arbitrary    *)
(* arguments (removeItem and the checkbox listener as functions of the     *)
(* selection).  SpecHandlers starts from arrays of tags, SpecSetter from   *)
(* arrays that may hold malformed string entries.                          *)

ArraysOf(S) == UNION {[1..n -> S] : n \in 0..MaxLen}

Candidates == {Alpha, Box, Exit, Ox}

TagIds == {1, 2, 3, 4}

InitRefs ==
    /\ project = "null"
    /\ lifecycle = "mounted"
    /\ menu = FALSE
    /\ items = <<>>
    /\ total = 0
    /\ more = FALSE
    /\ groups = <<>>
    /\ searchQuery = <<>>
    /\ filteredMenuItems = <<>>
    /\ loading = TRUE
    /\ snackbar = FALSE
    /\ model = "null"
    /\ inflight = [p \in Projects |-> 0]
    /\ emitted = NotEmitted
    /\ last = NoEvent

InitHandlers ==
    /\ modelValue \in ArraysOf({AlphaOld, Alpha, Box, Exit})
    /\ InitRefs

InitSetter ==
    /\ modelValue \in ArraysOf({Alpha, Box, StringEntry})
    /\ InitRefs

CallToggle(item) ==
    /\ LET renderedChecked == looseIndexOf(selectedItems, item) # 0
           assigned == vModelCheckbox(selectedItems, item, ~renderedChecked)
       IN  /\ SetSelectedItems(assigned)
           /\ last' = [Event("toggle") EXCEPT !.pre = modelValue,
                                              !.item = Content(item),
                                              !.assigned = assigned]
    /\ UNCHANGED <<snackbar, model, project, lifecycle, menu, items, total, more, groups,
                   searchQuery, filteredMenuItems, loading, inflight>>

CallRemoveItem(index) ==
    /\ SetSelectedItems(removeItemValue(index))
    /\ last' = [Event("remove") EXCEPT !.pre = modelValue,
                                       !.id = index,
                                       !.assigned = removeItemValue(index)]
    /\ UNCHANGED <<snackbar, model, project, lifecycle, menu, items, total, more, groups,
                   searchQuery, filteredMenuItems, loading, inflight>>

NextHandlers ==
    \/ \E item \in Candidates : CallToggle(item)
    \/ \E index \in TagIds : CallRemoveItem(index)

SpecHandlers == InitHandlers /\ [][NextHandlers]_vars

SpecSetter == InitSetter /\ [][NextHandlers]_vars

-----------------------------------------------------------------------------
(* Claims *)

TagTypes == {Priority, Severity, Team}

HasDuplicateIds(arr) ==
    \E i, j \in 1..Len(arr) : i # j /\ arr[i].id = arr[j].id

\* C1: the selection emitted to the host never contains two tags with the
\* same id, whatever toggles, removals, project changes and fetch
\* completions precede it.
C1_NoDuplicateIds == emitted # NotEmitted => ~HasDuplicateIds(emitted)

\* C2: for every tag type with exclusive = true the selection holds at most
\* one tag of that type, in every reachable state.
C2_ExclusiveAtMostOne ==
    \A type \in TagTypes :
        type.exclusive =>
            Cardinality({i \in 1..Len(modelValue) :
                            modelValue[i].tag_type.id = type.id}) <= 1

SelectedIds == {modelValue[i].id : i \in 1..Len(modelValue)}

SelectedTypeIds == {modelValue[i].tag_type.id : i \in 1..Len(modelValue)}

\* C3: in an exclusive group G a candidate t is disabled exactly when the
\* selection holds a tag of type G and no tag with t's id; so with a tag T
\* of G selected every other tag of G is disabled and T stays enabled; a
\* checkbox of a non-exclusive group is never disabled.
C3_DisabledRule ==
    \A g \in 1..Len(groups) : \A n \in 1..Len(groups[g].menuItems) :
        LET G == groups[g]
            t == G.menuItems[n]
        IN  /\ G.isExclusive =>
                (CheckboxDisabled(G, t) <=>
                    (G.id \in SelectedTypeIds /\ t.id \notin SelectedIds))
            /\ G.isExclusive =>
                \A k \in 1..Len(modelValue) :
                    modelValue[k].tag_type.id = G.id =>
                        IF t.id = modelValue[k].id
                        THEN ~CheckboxDisabled(G, t)
                        ELSE CheckboxDisabled(G, t)
            /\ ~G.isExclusive => ~CheckboxDisabled(G, t)

\* C3 witness: an exclusive group with its selected tag enabled and another
\* of its tags disabled.
C3_Witness ==
    \E g \in 1..Len(groups) : \E n, m \in 1..Len(groups[g].menuItems) :
        /\ groups[g].isExclusive
        /\ groups[g].menuItems[n].id \in SelectedIds
        /\ ~CheckboxDisabled(groups[g], groups[g].menuItems[n])
        /\ CheckboxDisabled(groups[g], groups[g].menuItems[m])

\* The tag_type ids of data in the order in which they are first seen.
RECURSIVE FirstSeenTypeIds(_)
FirstSeenTypeIds(data) ==
    IF data = <<>> THEN <<>>
    ELSE LET front == FirstSeenTypeIds(SubSeq(data, 1, Len(data) - 1))
             k == data[Len(data)].tag_type.id
         IN  IF \E i \in 1..Len(front) : front[i] = k THEN front
             ELSE Append(front, k)

\* The positions of the tags of type k in data, as the sequence of tags.
RECURSIVE TagsOfType(_, _)
TagsOfType(data, k) ==
    IF data = <<>> THEN <<>>
    ELSE IF Head(data).tag_type.id = k
         THEN <<Head(data)>> \o TagsOfType(Tail(data), k)
         ELSE TagsOfType(Tail(data), k)

\* C4: convertData yields one group per distinct tag_type.id, holding all
\* and only the tags of that type, groups and tags in first-seen order of
\* the fetched list.
C4_FirstSeenGroups ==
    LET order == FirstSeenTypeIds(items)
    IN  /\ Len(groups) = Len(order)
        /\ \A n \in 1..Len(groups) :
              /\ groups[n].id = order[n]
              /\ groups[n].menuItems = TagsOfType(items, order[n])

\* The tag is in the array (an entry with the same content).
Present(arr, tag) == \E i \in 1..Len(arr) : arr[i] = tag

\* arr without its entry at position k.
Without(arr, k) ==
    [i \in 1..(Len(arr) - 1) |-> IF i < k THEN arr[i] ELSE arr[i + 1]]

\* C5 as stated: toggling a tag that is present in the selection appends
\* it, toggling a tag that is absent removes it, and the result is emitted.
C5_AppendIfPresent ==
    last.op = "toggle" =>
        /\ Present(last.pre, last.item) => emitted = Append(last.pre, last.item)
        /\ ~Present(last.pre, last.item) => emitted = last.pre

\* C5 amended: toggling a tag of which the selection holds no deeply equal
\* entry appends it at the end; toggling a tag of which it holds one removes
\* the first such entry and keeps the others in order; the resulting array
\* is emitted and becomes the selection.
C5_ToggleAppendsOrRemoves ==
    last.op = "toggle" =>
        /\ ~Present(last.pre, last.item) =>
              emitted = Append(last.pre, last.item)
        /\ Present(last.pre, last.item) =>
              \E k \in 1..Len(last.pre) :
                  /\ last.pre[k] = last.item
                  /\ \A j \in 1..(k - 1) : last.pre[j] # last.item
                  /\ emitted = Without(last.pre, k)
        /\ modelValue = emitted

\* C5 witness: a toggle of a selected tag has removed it and kept another.
C5_Witness ==
    /\ last.op = "toggle"
    /\ Present(last.pre, last.item)
    /\ Len(emitted) = Len(last.pre) - 1
    /\ Len(emitted) > 0

\* arr without every tag whose id is id, the others in their order.
RECURSIVE MinusId(_, _)
MinusId(arr, id) ==
    IF arr = <<>> THEN <<>>
    ELSE IF Head(arr).id = id THEN MinusId(Tail(arr), id)
         ELSE <<Head(arr)>> \o MinusId(Tail(arr), id)

\* C6: removeItem(id) emits the selection minus every tag whose id is id,
\* the other tags kept in their order; for an id that is not selected the
\* selection is emitted unchanged.
C6_RemoveItem ==
    last.op = "remove" =>
        /\ emitted = MinusId(last.pre, last.id)
        /\ modelValue = emitted
        /\ \A i \in 1..Len(emitted) : emitted[i].id # last.id
        /\ (\A i \in 1..Len(last.pre) : last.pre[i].id # last.id) =>
              emitted = last.pre

\* C6 witness: a removal that dropped the first of two tags and kept the
\* other.
C6_Witness ==
    /\ last.op = "remove"
    /\ Len(last.pre) = 2
    /\ last.pre[1].id = last.id
    /\ emitted = <<last.pre[2]>>

\* C6 witness of the other case: the id removed was not selected.
C6_WitnessNotSelected ==
    /\ last.op = "remove"
    /\ last.pre # <<>>
    /\ \A i \in 1..Len(last.pre) : last.pre[i].id # last.id
    /\ emitted = last.pre

\* The entries of arr that are not strings, in their order.
RECURSIVE NonStrings(_)
NonStrings(arr) ==
    IF arr = <<>> THEN <<>>
    ELSE IF Head(arr).typeof = "string" THEN NonStrings(Tail(arr))
         ELSE <<Head(arr)>> \o NonStrings(Tail(arr))

CasePairs ==
    {<<"A", "a">>, <<"B", "b">>, <<"E", "e">>, <<"O", "o">>, <<"X", "x">>}

SameLetter(c, d) == c = d \/ <<c, d>> \in CasePairs \/ <<d, c>> \in CasePairs

\* name contains q as a case-insensitive substring.
ContainsIgnoringCase(name, q) ==
    \E off \in 0..Len(name) :
        /\ off + Len(q) <= Len(name)
        /\ \A j \in 1..Len(q) : SameLetter(name[off + j], q[j])

\* The items of all groups, group after group.
RECURSIVE AllMenuItems(_)
AllMenuItems(gs) ==
    IF gs = <<>> THEN <<>>
    ELSE AllMenuItems(SubSeq(gs, 1, Len(gs) - 1)) \o gs[Len(gs)].menuItems

\* The entries of arr whose name contains q, in their order.
RECURSIVE Matching(_, _)
Matching(arr, q) ==
    IF arr = <<>> THEN <<>>
    ELSE IF ContainsIgnoringCase(Head(arr).name, q)
         THEN <<Head(arr)>> \o Matching(Tail(arr), q)
         ELSE Matching(Tail(arr), q)

NamesOf(arr) == [i \in 1..Len(arr) |-> arr[i].name]

\* C8: after a search-text change the filtered list is the concatenation,
\* in group order, of the items of the current groups whose name contains
\* the query as a case-insensitive substring, and nothing else; the names
\* Alpha, Box, Exit with the query "x" give Box, Exit.
C8_FilteredList ==
    last.op = "search" =>
        /\ filteredMenuItems = Matching(AllMenuItems(groups), searchQuery)
        /\ (/\ NamesOf(AllMenuItems(groups)) = <<Alpha.name, Box.name, Exit.name>>
            /\ searchQuery = <<"x">>)
           => NamesOf(filteredMenuItems) = <<Box.name, Exit.name>>

\* C8 witness: the query "OX" has been searched over the groups holding
\* Box, Exit and Ox and found exactly Ox and Box, in group order.
C8_Witness ==
    /\ last.op = "search"
    /\ searchQuery = <<"O", "X">>
    /\ Len(groups) = 3
    /\ NamesOf(filteredMenuItems) = <<Ox.name, Box.name>>

\* The object item is an entry of the filtered list.
InFiltered(item) ==
    \E i \in 1..Len(filteredMenuItems) : filteredMenuItems[i].ref = item.ref

\* The rules of the template, as the claim states them.
C9_DisplayRules ==
    /\ \A g \in 1..Len(groups) :
          GroupShown(groups[g]) <=>
              \/ searchQuery = <<>>
              \/ \E n \in 1..Len(groups[g].menuItems) :
                    InFiltered(groups[g].menuItems[n])
    /\ \A g \in 1..Len(groups) : \A n \in 1..Len(groups[g].menuItems) :
          GroupShown(groups[g]) =>
              (ItemShown(groups[g].menuItems[n]) <=>
                  \/ filteredMenuItems = <<>>
                  \/ InFiltered(groups[g].menuItems[n]))
    /\ NoResultsShown <=> (searchQuery # <<>> /\ filteredMenuItems = <<>>)

\* C9 as stated: with the menu open, a group is shown iff the query is
\* empty or one of its items is in the filtered list; an item is shown iff
\* the filtered list is empty or holds the item, the filtered list being
\* empty exactly when there is no active query; the "no results" message is
\* shown iff the query is non-empty and the filtered list is empty.
C9_FilteredEmptyIffNoQuery ==
    (lifecycle = "mounted" /\ menu) =>
        /\ C9_DisplayRules
        /\ filteredMenuItems = <<>> <=> searchQuery = <<>>

\* C9 amended: with the menu open, a group is shown iff the query is empty
\* or one of its items is in the filtered list; an item is shown iff the
\* filtered list is empty or holds the item; the "no results" message is
\* shown iff the query is non-empty and the filtered list is empty.  (The
\* filtered list is also empty under an active query that matched nothing.)
C9_GroupsAndItemsShown ==
    (lifecycle = "mounted" /\ menu) => C9_DisplayRules

\* C9 witness: under an active query one group is shown with one of its
\* items shown and another hidden, and another group is hidden.
C9_Witness ==
    /\ lifecycle = "mounted" /\ menu
    /\ searchQuery # <<>>
    /\ \E g, h \in 1..Len(groups) : \E n, m \in 1..Len(groups[g].menuItems) :
          /\ GroupShown(groups[g])
          /\ ItemShown(groups[g].menuItems[n])
          /\ ~ItemShown(groups[g].menuItems[m])
          /\ ~GroupShown(groups[h])

\* C10: a click on the field toggles menu; while mounted a click outside
\* the root element sets menu to false and a click on or inside the root
\* never invokes closeMenu; after unmount no document click changes menu.
C10_MenuClicks ==
    /\ last.op = "clickField" => menu = ~last.preMenu
    /\ (last.op = "clickOutside" /\ lifecycle = "mounted") =>
          (last.closeCalled /\ menu = FALSE)
    /\ last.op \in {"clickField", "clickInside"} => ~last.closeCalled
    /\ (last.op = "clickOutside" /\ lifecycle = "unmounted") =>
          menu = last.preMenu

\* C10 witness: the menu was open at unmount and a later document click
\* left it open.
C10_Witness ==
    /\ last.op = "clickOutside"
    /\ lifecycle = "unmounted"
    /\ last.preMenu
    /\ menu

-----------------------------------------------------------------------------
(* C11 *)

\* The text the claim describes: "{tag_type.name}/{name}" of every entry in
\* selection order, joined by ", ".
RECURSIVE SerializedSelection(_)
SerializedSelection(sel) ==
    IF sel = <<>> THEN <<>>
    ELSE <<Head(sel).tag_type.name, "/">> \o Head(sel).name \o
         (IF Len(sel) > 1 THEN <<",", " ">> ELSE <<>>) \o
         SerializedSelection(Tail(sel))

\* C11: copyTags writes the strings "{tag_type.name}/{name}" of the selected
\* tags, in selection order and joined by ", " (the empty string for an
\* empty selection), sets snackbar to true and leaves the selection, menu,
\* the query and the groups unchanged.
C11_CopyTags ==
    [][last'.op = "copy" =>
          /\ last'.text = SerializedSelection(modelValue)
          /\ snackbar'
          /\ modelValue' = modelValue
          /\ menu' = menu
          /\ searchQuery' = searchQuery
          /\ groups' = groups]_vars

\* C11 witness: two tags were copied with the menu open, a query typed and
\* groups fetched.
C11_Witness ==
    /\ last.op = "copy"
    /\ last.pre = <<Box, Exit>>
    /\ last.text = <<"priority", "/", "B", "o", "x", ",", " ",
                     "severity", "/", "E", "x", "i", "t">>
    /\ snackbar
    /\ menu
    /\ searchQuery # <<>>
    /\ groups # <<>>

\* C11 witness: an empty selection was copied.
C11_WitnessEmpty ==
    /\ last.op = "copy"
    /\ last.pre = <<>>
    /\ last.text = <<>>
    /\ snackbar

-----------------------------------------------------------------------------
(* C12 *)

\* The filters of a request on the field "name".
NameFilters(request) ==
    {i \in 1..Len(request.tagTypeFilter) :
        request.tagTypeFilter[i].field = <<"name">>}

DiscoverabilityFilters(request) ==
    {i \in 1..Len(request.tagTypeFilter) :
        request.tagTypeFilter[i].field[1] = "discoverable_"}

\* C12: a request issued while the search query holds a "/" carries the
\* exact-match filter on the tag type's name for the part before the "/",
\* in addition to the discoverability filter, and has the part after it as
\* its text query q.
C12_SlashQuerySplit ==
    \A i \in 1..Len(searchQuery) :
        (/\ last.op \in {"mount", "project"}
         /\ searchQuery[i] = "/"
         /\ \A j \in 1..(i - 1) : searchQuery[j] # "/")
        => /\ last.request.q = SubSeq(searchQuery, i + 1, Len(searchQuery))
           /\ \E n \in NameFilters(last.request) :
                 last.request.tagTypeFilter[n].value =
                     SubSeq(searchQuery, 1, i - 1)
           /\ DiscoverabilityFilters(last.request) # {}

-----------------------------------------------------------------------------
(* C13 *)

\* The entries of a host array by content: type, id, name and tag type.
ContentOf(arr) ==
    [i \in 1..Len(arr) |->
        IF arr[i].typeof = "object"
        THEN [typeof |-> "object", id |-> arr[i].id, name |-> arr[i].name,
              tag_type |-> arr[i].tag_type]
        ELSE arr[i]]

-----------------------------------------------------------------------------
(* C14 *)

\* C14: the mount and every change of project issue exactly one tag request,
\* for the project of that moment; no other event (search, checkbox toggle,
\* chip removal, menu click, outside click, copy, snackbar, change of model
\* or of modelValue, completion or failure of a request) issues one.
C14_OneRequestPerProjectChange ==
    [][IF last'.op \in {"mount", "project"}
       THEN /\ Pending' = Pending + 1
            /\ inflight'[project'] = inflight[project'] + 1
       ELSE \A p \in Projects : inflight'[p] <= inflight[p]]_vars

\* C14 witness: the request of the mount and the request of a project
\* change are both outstanding, after the model was changed and tags were
\* copied.
C14_Witness ==
    /\ last.op = "project"
    /\ inflight["null"] = 1
    /\ inflight["p1"] = 1
    /\ model # "null"
    /\ snackbar

\* C14 witness: a change of model with no request outstanding.
C14_WitnessModelChange ==
    /\ last.op = "model"
    /\ Pending = 0
    /\ loading = FALSE

-----------------------------------------------------------------------------
(* C15 *)

\* groups is the grouping of items: one group per tag type of items, each
\* holding the items of its type in the order of items.
GroupsAreGroupingOfItems ==
    /\ {groups[g].id : g \in 1..Len(groups)} =
           {items[i].tag_type.id : i \in 1..Len(items)}
    /\ \A g, h \in 1..Len(groups) : groups[g].id = groups[h].id => g = h
    /\ \A g \in 1..Len(groups) :
          groups[g].menuItems =
              SelectSeq(items, LAMBDA a : a.tag_type.id = groups[g].id)

\* C15: every successful completion overwrites items, total, more and
\* groups with its own response, whatever the order of completion and
\* whatever the current project; no other step changes them; groups is the
\* grouping of items in every state.
C15_LastCompletionWins ==
    [][/\ GroupsAreGroupingOfItems'
       /\ last'.op = "fetched" =>
             \E p \in Projects :
                 /\ inflight'[p] = inflight[p] - 1
                 /\ ContentOf(items') = ServerItems(p)
                 /\ total' = ServerTotal(p)
                 /\ more' = (Len(items') < total')
       /\ last'.op # "fetched" =>
             UNCHANGED <<items, total, more, groups>>]_vars

\* C15 witness: two requests overlapped and the one issued for the earlier
\* project completed last: with project p1 current and nothing outstanding,
\* the groups are those of the response for project null.
C15_Witness ==
    /\ last.op = "fetched"
    /\ Pending = 0
    /\ project = "p1"
    /\ ContentOf(items) = ServerItems("null")
    /\ groups = convertData(items)
    /\ Len(groups) = 2

-----------------------------------------------------------------------------
(* C16 *)

\* C16: the failure of a request leaves loading, items, total, more and
\* groups, and every other ref of the component, as they were; loading
\* turns from true to false only in the successful completion of a request.
C16_FailureLeavesState ==
    [][/\ last'.op = "failed" =>
             UNCHANGED <<loading, items, total, more, groups, menu, snackbar,
                         searchQuery, filteredMenuItems, modelValue, emitted>>
       /\ (loading /\ ~loading') => last'.op = "fetched"]_vars

\* C16 witness: the only request failed: nothing is outstanding, nothing
\* was fetched and loading is true.
C16_Witness ==
    /\ last.op = "failed"
    /\ Pending = 0
    /\ loading
    /\ items = <<>>
    /\ groups = <<>>

\* C16 witness: of two overlapping requests one succeeded and the other
\* failed afterwards: the fetched groups and loading = false are kept.
C16_WitnessAfterSuccess ==
    /\ last.op = "failed"
    /\ Pending = 0
    /\ ~loading
    /\ groups # <<>>

-----------------------------------------------------------------------------
(* C17 *)

\* The checkbox of the n-th item of the g-th group is displayed.
Displayed(g, n) ==
    GroupShown(groups[g]) /\ ItemShown(groups[g].menuItems[n])

\* C17: with the menu open and a non-empty query, the items displayed are
\* exactly the items of the current groups whose name contains the query,
\* whatever the case, and "no results" is shown exactly when no item of the
\* current groups matches; also after a fetch replaced the groups.
C17_DisplayedAreMatches ==
    (lifecycle = "mounted" /\ menu /\ searchQuery # <<>>) =>
        /\ \A g \in 1..Len(groups) : \A n \in 1..Len(groups[g].menuItems) :
              Displayed(g, n) <=>
                  ContainsIgnoringCase(groups[g].menuItems[n].name, searchQuery)
        /\ NoResultsShown <=>
              Matching(AllMenuItems(groups), searchQuery) = <<>>

-----------------------------------------------------------------------------
(* C18 *)

\* C18: loading is true in every state in which a tag request is still
\* outstanding: loading = false implies that none is.
C18_LoadingWhileOutstanding ==
    ~loading => Pending = 0

-----------------------------------------------------------------------------
(* C19 *)

\* The checkbox of item in group is disabled when the selection is sel.
DisabledUnder(sel, group, item) ==
    /\ group.isExclusive
    /\ \E i \in 1..Len(sel) : sel[i].tag_type.id = group.id
    /\ \A i \in 1..Len(sel) : sel[i].id # item.id

\* C19: while the component is mounted the chip of every selected tag can
\* be closed, whatever the groups, the query, the loading flag and the
\* disabled checkboxes; removeItem on a selected tag's id yields a selection
\* without that id, after which no checkbox of the exclusive group of that
\* tag is disabled.
C19_CanAlwaysDeselect ==
    /\ [](lifecycle = "mounted" =>
             \A i \in 1..Len(modelValue) : ENABLED RemoveItem(i))
    /\ [][last'.op = "remove" =>
             /\ \E i \in 1..Len(modelValue) : modelValue[i].id = last'.id
             /\ \A j \in 1..Len(modelValue') : modelValue'[j].id # last'.id
             /\ \A i \in 1..Len(modelValue) : \A g \in 1..Len(groups') :
                   (/\ modelValue[i].id = last'.id
                    /\ modelValue[i].tag_type.id = groups'[g].id
                    /\ groups'[g].isExclusive)
                   => \A n \in 1..Len(groups'[g].menuItems) :
                         ~DisabledUnder(modelValue', groups'[g],
                                        groups'[g].menuItems[n])]_vars

\* C19 witness: tag 1 of the exclusive type was selected and is not among
\* the candidates fetched for project p1, which kept the checkbox of Box
\* disabled; with a query typed its chip was closed and no checkbox of the
\* group is disabled any more.
C19_Witness ==
    /\ last.op = "remove"
    /\ last.id = Alpha.id
    /\ project = "p1"
    /\ ContentOf(items) = ServerItems("p1")
    /\ searchQuery # <<>>
    /\ \E g \in 1..Len(groups) : \E n \in 1..Len(groups[g].menuItems) :
          /\ DisabledUnder(last.pre, groups[g], groups[g].menuItems[n])
          /\ ~CheckboxDisabled(groups[g], groups[g].menuItems[n])

\* C19 witness: a chip was closed while a request was outstanding and the
\* menu was closed.
C19_WitnessLoading ==
    /\ last.op = "remove"
    /\ loading
    /\ Pending > 0
    /\ ~menu

====
